---- MODULE Spec2Model ----
(***************************************************************************)
(* Model of the blocking DMA transfer driver of nrf52-hal-common/src/pwm.rs *)
(* (struct Pwm<T>: write, read, write_then_read).  The driver is a          *)
(* sequential program; every register access of the source is one step.     *)
(* The peripheral runs concurrently with it and raises the event flags.     *)
(***************************************************************************)
EXTENDS Integers, Sequences, FiniteSets, TLC

(***************************************************************************)
(* Program constants                                                        *)
(***************************************************************************)
\* transfer-size ceiling of the narrow (nRF52832) variant
EASY_DMA_SIZE == 255
\* width in bits of the MAXCNT field on the narrow variant
MAXCNT_WIDTH == 8

(***************************************************************************)
(* Bounds of the model                                                      *)
(***************************************************************************)
\* short buffers have lengths 0..MaxSmallLen
MaxSmallLen == 1
\* the hardware may report up to MaxShortfall bytes less than MAXCNT
MaxShortfall == 1
\* number of distinct target addresses tried
NumAddrs == 1

Addresses == {80 + i : i \in 0..(NumAddrs - 1)}
BufLens == (0..MaxSmallLen) \cup {EASY_DMA_SIZE, EASY_DMA_SIZE + 1}

\* where a slice can live: a `&[u8]` in RAM or in flash, a `&mut [u8]` in RAM
SrcPtrs == {"ram_a", "flash_a"}
DstPtrs == {"ram_b"}
DataMemory == {"ram_a", "ram_b"}

\* the instances of the peripheral (impl Instance) and the arguments of new
Instances == {"TWIM0", "TWIM1"}
Pins == {"pwm_ch0"}
Prescalers == {"DIV_8"}

NoBuffer == [ptr |-> "null", len |-> 0]
SrcBuffers == [ptr : SrcPtrs, len : BufLens]
DstBuffers == [ptr : DstPtrs, len : BufLens]

VARIABLES
    pc,         \* position of the driver ("idle" between calls)
    op,         \* the operation of the current / last call
    req,        \* its arguments: address, wr buffer, rd buffer
    result,     \* "none", "pending", "Ok" or an Error kind
    repeat,     \* the call repeats the call before it, which returned Ok
    regs,       \* the register block self.0
    hw,         \* what the peripheral is doing
    trace,      \* register accesses and fences of the current call, in order
    bad_write,  \* locals of write_then_read
    bad_read,
    periph,     \* the instance in the caller's hands ("none": moved away)
    self0,      \* the instance wrapped by the engine, self.0 ("none": no engine)
    engines     \* number of live engines wrapping the instance

vars == <<pc, op, req, result, repeat, regs, hw, trace, bad_write, bad_read,
          periph, self0, engines>>

(***************************************************************************)
(* Pure helpers                                                             *)
(***************************************************************************)
Pow2(n) == 2 ^ n

\* buffer.len() as u32: usize is 32 bits wide on the Cortex-M targets of
\* this crate, so the cast keeps every value a slice length can have
AsU32(n) == n

\* buffer.len() as _   (the width of the MAXCNT field)
AsMaxcnt(n) == n % Pow2(MAXCNT_WIDTH)

as_ptr(buffer) == buffer.ptr

\* slice_in_ram_or(slice, err): Ok when the slice lies in data RAM, else err
slice_in_ram_or(slice, err) == IF slice.ptr \in DataMemory THEN "Ok" ELSE err

\* `while event.read().bits() == 0 {}` keeps spinning
Spin_Timeout(ev) == FALSE
Spin(ev) == ev = 0

(***************************************************************************)
(* Validation (runs before any register access)                             *)
(***************************************************************************)
write_validate_NoLen(buffer) ==
    slice_in_ram_or(buffer, "DMABufferNotInDataMemory")
write_validate_NoRam(buffer) ==
    IF buffer.len > EASY_DMA_SIZE THEN "TxBufferTooLong" ELSE "Ok"
write_validate(buffer) ==
    IF slice_in_ram_or(buffer, "DMABufferNotInDataMemory") # "Ok"
    THEN slice_in_ram_or(buffer, "DMABufferNotInDataMemory")
    ELSE IF buffer.len > EASY_DMA_SIZE THEN "TxBufferTooLong" ELSE "Ok"

read_validate_Ge(buffer) ==
    IF buffer.len >= EASY_DMA_SIZE THEN "RxBufferTooLong" ELSE "Ok"
read_validate(buffer) ==
    IF buffer.len > EASY_DMA_SIZE THEN "RxBufferTooLong" ELSE "Ok"

write_then_read_validate_RxFirst(wr_buffer, rd_buffer) ==
    IF slice_in_ram_or(wr_buffer, "DMABufferNotInDataMemory") # "Ok"
    THEN slice_in_ram_or(wr_buffer, "DMABufferNotInDataMemory")
    ELSE IF rd_buffer.len > EASY_DMA_SIZE THEN "RxBufferTooLong"
    ELSE IF wr_buffer.len > EASY_DMA_SIZE THEN "TxBufferTooLong"
    ELSE "Ok"
write_then_read_validate_NoRd(wr_buffer, rd_buffer) ==
    IF slice_in_ram_or(wr_buffer, "DMABufferNotInDataMemory") # "Ok"
    THEN slice_in_ram_or(wr_buffer, "DMABufferNotInDataMemory")
    ELSE IF wr_buffer.len > EASY_DMA_SIZE THEN "TxBufferTooLong"
    ELSE "Ok"
write_then_read_validate(wr_buffer, rd_buffer) ==
    IF slice_in_ram_or(wr_buffer, "DMABufferNotInDataMemory") # "Ok"
    THEN slice_in_ram_or(wr_buffer, "DMABufferNotInDataMemory")
    ELSE IF wr_buffer.len > EASY_DMA_SIZE THEN "TxBufferTooLong"
    ELSE IF rd_buffer.len > EASY_DMA_SIZE THEN "RxBufferTooLong"
    ELSE "Ok"

(***************************************************************************)
(* Post-transfer verification                                               *)
(***************************************************************************)
write_verify_Ignore(amount, len) == "Ok"
write_verify(amount, len) ==
    IF amount # AsU32(len) THEN "Transmit" ELSE "Ok"

read_verify_Ignore(amount, len) == "Ok"
read_verify(amount, len) ==
    IF amount # AsU32(len) THEN "Receive" ELSE "Ok"

wtr_bad(amount, len) == amount # AsU32(len)

wtr_verify_RxFirst(bw, br) ==
    IF br THEN "Receive" ELSE IF bw THEN "Transmit" ELSE "Ok"
wtr_verify(bw, br) ==
    IF bw THEN "Transmit" ELSE IF br THEN "Receive" ELSE "Ok"

(***************************************************************************)
(* State after construction: registers at their reset values                *)
(***************************************************************************)
ResetRegs ==
    [psel_out |-> [pin |-> "none", connect |-> "disconnected"],
     enable |-> "disabled",
     prescaler |-> "reset",
     address |-> 0,
     txd_ptr |-> "null", txd_maxcnt |-> 0, txd_amount |-> 0,
     rxd_ptr |-> "null", rxd_maxcnt |-> 0, rxd_amount |-> 0,
     shorts |-> {},
     events_lasttx |-> 0, events_lastrx |-> 0, events_stopped |-> 0]

\* the three register writes of new, applied to the register block r
new_regs(r, pin, prescaler) ==
    [r EXCEPT !.psel_out = [pin |-> pin, connect |-> "connected"],
              !.enable = "enabled",
              !.prescaler = prescaler]

Init ==
    /\ pc = "idle"
    /\ op = "none"
    /\ req = [address |-> 0, wr |-> NoBuffer, rd |-> NoBuffer]
    /\ result = "none"
    /\ repeat = FALSE
    /\ \E pin \in Pins, prescaler \in Prescalers :
          regs = new_regs(ResetRegs, pin, prescaler)
    /\ periph = "none"
    /\ self0 \in Instances
    /\ engines = 1
    /\ hw = "idle"
    /\ trace = <<>>
    /\ bad_write = FALSE
    /\ bad_read = FALSE

(***************************************************************************)
(* Building blocks of the driver steps                                      *)
(***************************************************************************)
Goto(from, to) == pc = from /\ pc' = to
Log(e) == trace' = Append(trace, e)
Locals == <<bad_write, bad_read>>
Owner == <<periph, self0, engines>>
\* what the steps inside a call leave alone
Call == <<op, req, repeat, Owner>>

\* entering a call: note whether it repeats the previous one, start a fresh
\* trace
Enter(o, a, wr, rd, to) ==
    /\ pc = "idle"
    /\ self0 # "none"
    /\ pc' = to
    /\ op' = o
    /\ req' = [address |-> a, wr |-> wr, rd |-> rd]
    /\ repeat' = (/\ op = o
                  /\ req = [address |-> a, wr |-> wr, rd |-> rd]
                  /\ result = "Ok")
    /\ result' = "pending"
    /\ trace' = <<>>
    /\ bad_write' = FALSE
    /\ bad_read' = FALSE
    /\ UNCHANGED <<regs, hw, Owner>>

\* returning from a call
Return(from, r) ==
    /\ Goto(from, "idle")
    /\ result' = r

\* the validation step: return the error, or go on to the opening fence
Validate(from, v, to) ==
    /\ pc = from
    /\ IF v # "Ok" THEN pc' = "idle" /\ result' = v
                   ELSE pc' = to /\ result' = result
    /\ UNCHANGED <<Call, regs, hw, trace, Locals>>

Fence(from, to) ==
    /\ Goto(from, to)
    /\ Log(<<"fence", "SeqCst">>)
    /\ UNCHANGED <<Call, result, regs, hw, Locals>>

\* a plain register write
RegWrite(from, to, field, val) ==
    /\ Goto(from, to)
    /\ regs' = [regs EXCEPT ![field] = val]
    /\ Log(<<"write", field>>)
    /\ UNCHANGED <<Call, result, hw, Locals>>

\* writing 1 to a task register starts the peripheral on that task
Task(from, to, task, h) ==
    /\ Goto(from, to)
    /\ hw' = h
    /\ Log(<<"write", task>>)
    /\ UNCHANGED <<Call, result, regs, Locals>>

\* leaving a busy-wait loop: the event register was read as set
Wait(from, to, field) ==
    /\ pc = from
    /\ ~Spin(regs[field])
    /\ pc' = to
    /\ Log(<<"wait", field>>)
    /\ UNCHANGED <<Call, result, regs, hw, Locals>>

(***************************************************************************)
(* write(address, buffer)                                                   *)
(***************************************************************************)
W_Call ==
    \E a \in Addresses, b \in SrcBuffers :
        Enter("write", a, b, NoBuffer, "w_validate")
W_Validate == Validate("w_validate", write_validate(req.wr), "w_fence1")
W_Fence1 == Fence("w_fence1", "w_address")
W_Address == RegWrite("w_address", "w_txd_ptr", "address", req.address)
W_TxdPtr_Skip ==
    /\ Goto("w_txd_ptr", "w_txd_maxcnt")
    /\ UNCHANGED <<Call, result, regs, hw, trace, Locals>>
W_TxdPtr == RegWrite("w_txd_ptr", "w_txd_maxcnt", "txd_ptr", as_ptr(req.wr))
W_TxdMaxcnt ==
    RegWrite("w_txd_maxcnt", "w_starttx", "txd_maxcnt", AsMaxcnt(req.wr.len))
W_StartTx == Task("w_starttx", "w_wait_lasttx", "tasks_starttx", "tx")
W_WaitLastTx == Wait("w_wait_lasttx", "w_reset_lasttx", "events_lasttx")
W_ResetLastTx == RegWrite("w_reset_lasttx", "w_stop", "events_lasttx", 0)
W_Stop_NoTrigger ==
    /\ Goto("w_stop", "w_wait_stopped")
    /\ Log(<<"write", "tasks_stop">>)
    /\ UNCHANGED <<Call, result, regs, hw, Locals>>
W_Stop == Task("w_stop", "w_wait_stopped", "tasks_stop", "stopping")
W_WaitStopped == Wait("w_wait_stopped", "w_reset_stopped", "events_stopped")
W_ResetStopped_Skip ==
    /\ Goto("w_reset_stopped", "w_fence2")
    /\ UNCHANGED <<Call, result, regs, hw, trace, Locals>>
W_ResetStopped ==
    RegWrite("w_reset_stopped", "w_fence2", "events_stopped", 0)
W_Fence2_Skip ==
    /\ Goto("w_fence2", "w_verify")
    /\ UNCHANGED <<Call, result, regs, hw, trace, Locals>>
W_Fence2 == Fence("w_fence2", "w_verify")
W_Verify ==
    /\ Return("w_verify", write_verify(regs.txd_amount, req.wr.len))
    /\ Log(<<"read", "txd_amount">>)
    /\ UNCHANGED <<Call, regs, hw, Locals>>

write ==
    \/ W_Call \/ W_Validate \/ W_Fence1 \/ W_Address \/ W_TxdPtr
    \/ W_TxdMaxcnt \/ W_StartTx \/ W_WaitLastTx \/ W_ResetLastTx \/ W_Stop
    \/ W_WaitStopped \/ W_ResetStopped \/ W_Fence2 \/ W_Verify

(***************************************************************************)
(* read(address, buffer)                                                    *)
(***************************************************************************)
R_Call ==
    \E a \in Addresses, b \in DstBuffers :
        Enter("read", a, NoBuffer, b, "r_validate")
R_Validate == Validate("r_validate", read_validate(req.rd), "r_fence1")
R_Fence1 == Fence("r_fence1", "r_address")
R_Address == RegWrite("r_address", "r_rxd_ptr", "address", req.address)
R_RxdPtr_Tx == RegWrite("r_rxd_ptr", "r_rxd_maxcnt", "txd_ptr", as_ptr(req.rd))
R_RxdPtr == RegWrite("r_rxd_ptr", "r_rxd_maxcnt", "rxd_ptr", as_ptr(req.rd))
R_RxdMaxcnt ==
    RegWrite("r_rxd_maxcnt", "r_startrx", "rxd_maxcnt", AsMaxcnt(req.rd.len))
R_StartRx == Task("r_startrx", "r_wait_lastrx", "tasks_startrx", "rx")
R_WaitLastRx == Wait("r_wait_lastrx", "r_reset_lastrx", "events_lastrx")
R_ResetLastRx_Skip ==
    /\ Goto("r_reset_lastrx", "r_stop")
    /\ UNCHANGED <<Call, result, regs, hw, trace, Locals>>
R_ResetLastRx == RegWrite("r_reset_lastrx", "r_stop", "events_lastrx", 0)
R_Stop == Task("r_stop", "r_wait_stopped", "tasks_stop", "stopping")
R_WaitStopped == Wait("r_wait_stopped", "r_reset_stopped", "events_stopped")
R_ResetStopped ==
    RegWrite("r_reset_stopped", "r_fence2", "events_stopped", 0)
R_Fence2 == Fence("r_fence2", "r_verify")
R_Verify ==
    /\ Return("r_verify", read_verify(regs.rxd_amount, req.rd.len))
    /\ Log(<<"read", "rxd_amount">>)
    /\ UNCHANGED <<Call, regs, hw, Locals>>

read ==
    \/ R_Call \/ R_Validate \/ R_Fence1 \/ R_Address \/ R_RxdPtr
    \/ R_RxdMaxcnt \/ R_StartRx \/ R_WaitLastRx \/ R_ResetLastRx \/ R_Stop
    \/ R_WaitStopped \/ R_ResetStopped \/ R_Fence2 \/ R_Verify

(***************************************************************************)
(* write_then_read(address, wr_buffer, rd_buffer)                           *)
(***************************************************************************)
T_Call ==
    \E a \in Addresses, wb \in SrcBuffers, rb \in DstBuffers :
        Enter("write_then_read", a, wb, rb, "t_validate")
T_Validate ==
    Validate("t_validate", write_then_read_validate(req.wr, req.rd),
             "t_fence1")
T_Fence1 == Fence("t_fence1", "t_address")
T_Address == RegWrite("t_address", "t_txd_ptr", "address", req.address)
T_TxdPtr == RegWrite("t_txd_ptr", "t_txd_maxcnt", "txd_ptr", as_ptr(req.wr))
T_TxdMaxcnt ==
    RegWrite("t_txd_maxcnt", "t_rxd_ptr", "txd_maxcnt", AsMaxcnt(req.wr.len))
T_RxdPtr == RegWrite("t_rxd_ptr", "t_rxd_maxcnt", "rxd_ptr", as_ptr(req.rd))
T_RxdMaxcnt ==
    RegWrite("t_rxd_maxcnt", "t_shorts", "rxd_maxcnt", AsMaxcnt(req.rd.len))
T_Shorts_Skip ==
    /\ Goto("t_shorts", "t_starttx")
    /\ UNCHANGED <<Call, result, regs, hw, trace, Locals>>
\* shorts.modify: read the register, set both short-circuits, write it back
T_Shorts ==
    /\ Goto("t_shorts", "t_starttx")
    /\ regs' = [regs EXCEPT
                  !.shorts = @ \cup {"lasttx_startrx", "lastrx_stop"}]
    /\ Log(<<"modify", "shorts">>)
    /\ UNCHANGED <<Call, result, hw, Locals>>
T_StartTx == Task("t_starttx", "t_wait_stopped", "tasks_starttx", "tx")
T_WaitStopped_LastRx ==
    Wait("t_wait_stopped", "t_reset_lasttx", "events_lastrx")
T_WaitStopped == Wait("t_wait_stopped", "t_reset_lasttx", "events_stopped")
T_ResetLastTx ==
    RegWrite("t_reset_lasttx", "t_reset_lastrx", "events_lasttx", 0)
T_ResetLastRx ==
    RegWrite("t_reset_lastrx", "t_reset_stopped", "events_lastrx", 0)
T_ResetStopped ==
    RegWrite("t_reset_stopped", "t_reset_shorts", "events_stopped", 0)
T_ResetShorts_Skip ==
    /\ Goto("t_reset_shorts", "t_fence2")
    /\ UNCHANGED <<Call, result, regs, hw, trace, Locals>>
T_ResetShorts == RegWrite("t_reset_shorts", "t_fence2", "shorts", {})
T_Fence2 == Fence("t_fence2", "t_bad_write")
T_BadWrite ==
    /\ Goto("t_bad_write", "t_bad_read")
    /\ bad_write' = wtr_bad(regs.txd_amount, req.wr.len)
    /\ Log(<<"read", "txd_amount">>)
    /\ UNCHANGED <<Call, result, regs, hw, bad_read>>
T_BadRead ==
    /\ Goto("t_bad_read", "t_verify")
    /\ bad_read' = wtr_bad(regs.rxd_amount, req.rd.len)
    /\ Log(<<"read", "rxd_amount">>)
    /\ UNCHANGED <<Call, result, regs, hw, bad_write>>
T_Verify ==
    /\ Return("t_verify", wtr_verify(bad_write, bad_read))
    /\ UNCHANGED <<Call, regs, hw, trace, Locals>>

write_then_read ==
    \/ T_Call \/ T_Validate \/ T_Fence1 \/ T_Address \/ T_TxdPtr
    \/ T_TxdMaxcnt \/ T_RxdPtr \/ T_RxdMaxcnt \/ T_Shorts \/ T_StartTx
    \/ T_WaitStopped \/ T_ResetLastTx \/ T_ResetLastRx \/ T_ResetStopped
    \/ T_ResetShorts \/ T_Fence2 \/ T_BadWrite \/ T_BadRead \/ T_Verify

(***************************************************************************)
(* new(pwm, channels, prescaler) and free(self)                             *)
(***************************************************************************)
NoReq == [address |-> 0, wr |-> NoBuffer, rd |-> NoBuffer]

\* new takes the instance by value
new_Copy ==
    /\ pc = "idle"
    /\ periph # "none"
    /\ \E pin \in Pins, prescaler \in Prescalers :
          regs' = new_regs(regs, pin, prescaler)
    /\ self0' = periph
    /\ periph' = periph
    /\ engines' = engines + 1
    /\ op' = "new"
    /\ req' = NoReq
    /\ result' = "none"
    /\ repeat' = FALSE
    /\ trace' = <<<<"write", "psel_out">>, <<"write", "enable">>,
                  <<"write", "prescaler">>>>
    /\ UNCHANGED <<pc, hw, Locals>>
new ==
    /\ pc = "idle"
    /\ periph # "none"
    /\ \E pin \in Pins, prescaler \in Prescalers :
          regs' = new_regs(regs, pin, prescaler)
    /\ self0' = periph
    /\ periph' = "none"
    /\ engines' = engines + 1
    /\ op' = "new"
    /\ req' = NoReq
    /\ result' = "none"
    /\ repeat' = FALSE
    /\ trace' = <<<<"write", "psel_out">>, <<"write", "enable">>,
                  <<"write", "prescaler">>>>
    /\ UNCHANGED <<pc, hw, Locals>>

\* free takes the engine by value and hands out self.0
free_Disable ==
    /\ pc = "idle"
    /\ self0 # "none"
    /\ periph' = self0
    /\ self0' = "none"
    /\ engines' = engines - 1
    /\ op' = "free"
    /\ req' = NoReq
    /\ result' = "none"
    /\ repeat' = FALSE
    /\ regs' = [regs EXCEPT !.enable = "disabled"]
    /\ trace' = <<<<"write", "enable">>>>
    /\ UNCHANGED <<pc, hw, Locals>>
free ==
    /\ pc = "idle"
    /\ self0 # "none"
    /\ periph' = self0
    /\ self0' = "none"
    /\ engines' = engines - 1
    /\ op' = "free"
    /\ req' = NoReq
    /\ result' = "none"
    /\ repeat' = FALSE
    /\ trace' = <<>>
    /\ UNCHANGED <<pc, regs, hw, Locals>>

(***************************************************************************)
(* The peripheral                                                           *)
(***************************************************************************)
\* the byte counts the hardware may report for a transfer of at most n bytes
Amounts(n) == {a \in 0..n : n - a <= MaxShortfall}

\* the last transmit byte goes out: LASTTX is raised, and the
\* LASTTX_STARTRX short-circuit starts the receive phase
HwLastTx ==
    /\ hw = "tx"
    /\ \E a \in Amounts(regs.txd_maxcnt) :
          regs' = [regs EXCEPT !.txd_amount = a, !.events_lasttx = 1]
    /\ hw' = IF "lasttx_startrx" \in regs.shorts THEN "rx" ELSE "tx_last"
    /\ UNCHANGED <<pc, Call, result, trace, Locals>>

\* the last receive byte comes in: LASTRX is raised, and the
\* LASTRX_STOP short-circuit triggers the stop task
HwLastRx ==
    /\ hw = "rx"
    /\ \E a \in Amounts(regs.rxd_maxcnt) :
          regs' = [regs EXCEPT !.rxd_amount = a, !.events_lastrx = 1]
    /\ hw' = IF "lastrx_stop" \in regs.shorts THEN "stopping" ELSE "rx_last"
    /\ UNCHANGED <<pc, Call, result, trace, Locals>>

\* the stop condition is on the bus: STOPPED is raised
HwStopped ==
    /\ hw = "stopping"
    /\ regs' = [regs EXCEPT !.events_stopped = 1]
    /\ hw' = "idle"
    /\ UNCHANGED <<pc, Call, result, trace, Locals>>

Hardware == HwLastTx \/ HwLastRx \/ HwStopped

Next == new \/ free \/ write \/ read \/ write_then_read \/ Hardware

Spec == Init /\ [][Next]_vars

\* the steps inside a call: once called, the driver runs on by itself
Running ==
    \/ W_Validate \/ W_Fence1 \/ W_Address \/ W_TxdPtr \/ W_TxdMaxcnt
    \/ W_StartTx \/ W_WaitLastTx \/ W_ResetLastTx \/ W_Stop
    \/ W_WaitStopped \/ W_ResetStopped \/ W_Fence2 \/ W_Verify
    \/ R_Validate \/ R_Fence1 \/ R_Address \/ R_RxdPtr \/ R_RxdMaxcnt
    \/ R_StartRx \/ R_WaitLastRx \/ R_ResetLastRx \/ R_Stop
    \/ R_WaitStopped \/ R_ResetStopped \/ R_Fence2 \/ R_Verify
    \/ T_Validate \/ T_Fence1 \/ T_Address \/ T_TxdPtr \/ T_TxdMaxcnt
    \/ T_RxdPtr \/ T_RxdMaxcnt \/ T_Shorts \/ T_StartTx \/ T_WaitStopped
    \/ T_ResetLastTx \/ T_ResetLastRx \/ T_ResetStopped \/ T_ResetShorts
    \/ T_Fence2 \/ T_BadWrite \/ T_BadRead \/ T_Verify

\* the driver keeps executing and the peripheral completes what it started
FairSpec == Spec /\ WF_vars(Running) /\ WF_vars(Hardware)

(***************************************************************************)
(* Vocabulary of the properties                                             *)
(***************************************************************************)
Errors == {"TxBufferTooLong", "RxBufferTooLong", "Transmit", "Receive",
           "DMABufferNotInDataMemory"}
\* the last call has returned
Transfers == {"write", "read", "write_then_read"}
Returned == pc = "idle" /\ op \in Transfers
TooLong(buffer) == buffer.len > EASY_DMA_SIZE
InRam(buffer) == buffer.ptr \in DataMemory
\* the call got past validation and reached the register block
Validated == trace # <<>>
UsesTx == op \in {"write", "write_then_read"}
UsesRx == op \in {"read", "write_then_read"}
TxShort == regs.txd_amount # req.wr.len
RxShort == regs.rxd_amount # req.rd.len

(***************************************************************************)
(* C1  buffers above the ceiling                                            *)
(***************************************************************************)
\* C1 (as stated): every call with a buffer longer than EASY_DMA_SIZE
\* returns the too-long kind of that buffer (Tx for a write buffer, Rx for
\* a read buffer) and has accessed no register.
C1_TooLongAlwaysMatchingKind ==
    Returned =>
      /\ (UsesTx /\ TooLong(req.wr)
            => result = "TxBufferTooLong" /\ trace = <<>>)
      /\ (UsesRx /\ TooLong(req.rd)
            => result = "RxBufferTooLong" /\ trace = <<>>)

\* C1 (amended): every call with a buffer longer than EASY_DMA_SIZE fails
\* and has accessed no register; the kind is the too-long kind of that
\* buffer unless an earlier check of the same call failed, whose kind is
\* then returned: residency before the transmit length, the transmit
\* length before the receive length.
C1_TooLongRejected ==
    Returned =>
      /\ (op = "write" /\ TooLong(req.wr)
            => /\ trace = <<>>
               /\ result = IF InRam(req.wr) THEN "TxBufferTooLong"
                           ELSE "DMABufferNotInDataMemory")
      /\ (op = "read" /\ TooLong(req.rd)
            => trace = <<>> /\ result = "RxBufferTooLong")
      /\ (op = "write_then_read" /\ (TooLong(req.wr) \/ TooLong(req.rd))
            => /\ trace = <<>>
               /\ result = IF ~InRam(req.wr) THEN "DMABufferNotInDataMemory"
                           ELSE IF TooLong(req.wr) THEN "TxBufferTooLong"
                           ELSE "RxBufferTooLong")

C1_Witness ==
    /\ Returned
    /\ op = "write_then_read"
    /\ InRam(req.wr) /\ ~TooLong(req.wr) /\ TooLong(req.rd)
    /\ result = "RxBufferTooLong"
    /\ trace = <<>>

(***************************************************************************)
(* C2  source buffers outside data memory                                   *)
(***************************************************************************)
\* C2: write and write_then_read with a source buffer outside data RAM
\* return DMABufferNotInDataMemory having accessed no register; read never
\* returns DMABufferNotInDataMemory.
C2_NotInRamRejected ==
    Returned =>
      /\ (UsesTx /\ ~InRam(req.wr)
            => result = "DMABufferNotInDataMemory" /\ trace = <<>>)
      /\ (op = "read" => result # "DMABufferNotInDataMemory")

C2_Witness ==
    /\ Returned
    /\ op = "write"
    /\ ~InRam(req.wr) /\ ~TooLong(req.wr)
    /\ result = "DMABufferNotInDataMemory"
    /\ trace = <<>>

(***************************************************************************)
(* C3  Ok implies the reported amounts equal the requested lengths          *)
(***************************************************************************)
\* C3: when a call has returned Ok, txd.amount equals the write buffer's
\* length if the call transmitted, and rxd.amount equals the read buffer's
\* length if the call received.
C3_OkAmountsMatch ==
    Returned /\ result = "Ok" =>
      /\ (UsesTx => regs.txd_amount = req.wr.len)
      /\ (UsesRx => regs.rxd_amount = req.rd.len)

C3_Witness ==
    /\ Returned
    /\ op = "write_then_read"
    /\ result = "Ok"
    /\ req.wr.len > 0 /\ req.rd.len > 0
    /\ regs.txd_amount = req.wr.len
    /\ regs.rxd_amount = req.rd.len

(***************************************************************************)
(* C4  a mismatch never returns Ok                                          *)
(***************************************************************************)
\* C4: a validated call whose reported amount differs from the requested
\* length does not return Ok: write returns Transmit, read returns Receive.
C4_MismatchIsError ==
    Returned /\ Validated =>
      /\ (op = "write" /\ TxShort => result = "Transmit")
      /\ (op = "read" /\ RxShort => result = "Receive")
      /\ (op = "write_then_read" /\ (TxShort \/ RxShort) => result # "Ok")

C4_Witness ==
    /\ Returned /\ Validated
    /\ op = "read"
    /\ RxShort
    /\ result = "Receive"

(***************************************************************************)
(* C5  write_then_read reports the transmit mismatch first                  *)
(***************************************************************************)
\* C5: a validated write_then_read returns Transmit when both amounts
\* differ from their lengths, Receive when only the receive amount
\* differs, and its result is always one value: Ok or one error kind.
C5_TransmitCheckedFirst ==
    Returned /\ Validated /\ op = "write_then_read" =>
      /\ (TxShort /\ RxShort => result = "Transmit")
      /\ (~TxShort /\ RxShort => result = "Receive")
      /\ result \in {"Ok"} \cup Errors

C5_Witness ==
    /\ Returned /\ Validated
    /\ op = "write_then_read"
    /\ TxShort /\ RxShort
    /\ result = "Transmit"

(***************************************************************************)
(* Reading the trace of the current call                                    *)
(***************************************************************************)
Has(e) == \E i \in DOMAIN trace : trace[i] = e
Count(e) == Cardinality({i \in DOMAIN trace : trace[i] = e})
Before(a, b) ==
    \E i, j \in DOMAIN trace : i < j /\ trace[i] = a /\ trace[j] = b
Waits == {i \in DOMAIN trace : trace[i][1] = "wait"}
EventsClear ==
    /\ regs.events_lasttx = 0
    /\ regs.events_lastrx = 0
    /\ regs.events_stopped = 0
BothShorts == {"lasttx_startrx", "lastrx_stop"}

(***************************************************************************)
(* C6  two calls in succession                                              *)
(***************************************************************************)
\* C6: when write (or read) is called again with the same valid buffer
\* right after a successful call, the second call starts with the event
\* flags clear, the shorts disabled and the peripheral idle, as the first
\* did, and its result is decided by its own transfer alone: Ok exactly
\* when the amount reported for it equals the buffer length.
C6_SecondCallIndependent ==
    op \in {"write", "read"} /\ repeat =>
      /\ (pc \in {"w_validate", "r_validate"}
            => EventsClear /\ regs.shorts = {} /\ hw = "idle")
      /\ (Returned /\ op = "write" => (result = "Ok" <=> ~TxShort))
      /\ (Returned /\ op = "read" => (result = "Ok" <=> ~RxShort))
      /\ (Returned => EventsClear /\ regs.shorts = {} /\ hw = "idle")

C6_Witness ==
    /\ Returned
    /\ op = "write" /\ repeat
    /\ req.wr.len > 0
    /\ result = "Ok"

(***************************************************************************)
(* C7  the peripheral is clean at every return                              *)
(***************************************************************************)
ResetsOf(o) ==
    IF o = "write"
    THEN {<<"write", "events_lasttx">>, <<"write", "events_stopped">>}
    ELSE IF o = "read"
    THEN {<<"write", "events_lastrx">>, <<"write", "events_stopped">>}
    ELSE {<<"write", "events_lasttx">>, <<"write", "events_lastrx">>,
          <<"write", "events_stopped">>, <<"write", "shorts">>}
AmountReadsOf(o) ==
    IF o = "write" THEN {<<"read", "txd_amount">>}
    ELSE IF o = "read" THEN {<<"read", "rxd_amount">>}
    ELSE {<<"read", "txd_amount">>, <<"read", "rxd_amount">>}
\* C7: when a validated call has returned, with Ok or with an error, the
\* three event flags are clear and the shorts are disabled, and every
\* reset of the call (its event flags, and the shorts in write_then_read)
\* came before the amount registers were read for the verdict.
C7_CleanAtReturn ==
    Returned /\ Validated =>
      /\ EventsClear
      /\ regs.shorts = {}
      /\ \A r \in ResetsOf(op), a \in AmountReadsOf(op) : Before(r, a)

C7_Witness ==
    /\ Returned /\ Validated
    /\ op = "write_then_read"
    /\ result = "Receive"
    /\ EventsClear /\ regs.shorts = {}

(***************************************************************************)
(* C8  write_then_read programs everything before starting                  *)
(***************************************************************************)
WtrSetup ==
    {<<"write", "address">>, <<"write", "txd_ptr">>,
     <<"write", "txd_maxcnt">>, <<"write", "rxd_ptr">>,
     <<"write", "rxd_maxcnt">>, <<"modify", "shorts">>}
\* C8: in write_then_read the address, both pointer/count pairs and both
\* short-circuits are written before tasks_starttx is triggered, and while
\* the started transfer is awaited the registers hold the request.
C8_ProgrammedBeforeStart ==
    op = "write_then_read" /\ Has(<<"write", "tasks_starttx">>) =>
      /\ \A e \in WtrSetup : Before(e, <<"write", "tasks_starttx">>)
      /\ (pc = "t_wait_stopped" =>
            /\ BothShorts \subseteq regs.shorts
            /\ regs.address = req.address
            /\ regs.txd_ptr = req.wr.ptr /\ regs.txd_maxcnt = req.wr.len
            /\ regs.rxd_ptr = req.rd.ptr /\ regs.rxd_maxcnt = req.rd.len)

C8_Witness ==
    /\ op = "write_then_read"
    /\ pc = "t_wait_stopped"
    /\ hw = "tx"
    /\ req.wr.len > 0 /\ req.rd.len > 0
    /\ BothShorts \subseteq regs.shorts

(***************************************************************************)
(* C9  write_then_read waits for STOPPED only                               *)
(***************************************************************************)
\* C9: write_then_read never waits on events_lasttx or events_lastrx and
\* never writes tasks_startrx or tasks_stop; it waits at most once, on
\* events_stopped, and a validated call that has returned waited exactly
\* once.
C9_SingleStoppedWait ==
    op = "write_then_read" =>
      /\ \A i \in Waits : trace[i] = <<"wait", "events_stopped">>
      /\ Cardinality(Waits) <= 1
      /\ ~Has(<<"write", "tasks_startrx">>)
      /\ ~Has(<<"write", "tasks_stop">>)
      /\ (Returned /\ Validated => Cardinality(Waits) = 1)

C9_Witness ==
    /\ Returned /\ Validated
    /\ op = "write_then_read"
    /\ req.wr.len > 0 /\ req.rd.len > 0
    /\ regs.rxd_amount = req.rd.len
    /\ Count(<<"wait", "events_stopped">>) = 1
    /\ result = "Ok"

(***************************************************************************)
(* C10  no timeout: the call leaves a wait only on the event                *)
(***************************************************************************)
Awaited ==
    [w_wait_lasttx |-> "events_lasttx", w_wait_stopped |-> "events_stopped",
     r_wait_lastrx |-> "events_lastrx", r_wait_stopped |-> "events_stopped",
     t_wait_stopped |-> "events_stopped"]
Blocked == pc \in DOMAIN Awaited /\ regs[Awaited[pc]] = 0
WaitsOf(o) ==
    IF o = "write"
    THEN <<<<"wait", "events_lasttx">>, <<"wait", "events_stopped">>>>
    ELSE IF o = "read"
    THEN <<<<"wait", "events_lastrx">>, <<"wait", "events_stopped">>>>
    ELSE <<<<"wait", "events_stopped">>>>
WaitsSeen == [k \in 1..Cardinality(Waits) |->
                trace[CHOOSE i \in Waits :
                        Cardinality({j \in Waits : j <= i}) = k]]
\* the driver's part of the state: a blocked driver changes none of it
Driver == <<pc, op, req, result, repeat, trace, bad_write, bad_read,
            periph, self0, engines>>
\* C10: a validated call that has returned has observed, in order, every
\* event it waits for (write: lasttx, stopped; read: lastrx, stopped;
\* write_then_read: stopped); and while the awaited event flag is clear
\* the driver takes no step: it does not advance, return, or access a
\* register.
C10_NoTimeout ==
    /\ [](Returned /\ Validated => WaitsSeen = WaitsOf(op))
    /\ [][Blocked => UNCHANGED Driver]_vars

C10_Witness ==
    /\ pc = "w_wait_stopped"
    /\ regs.events_stopped = 0
    /\ hw = "stopping"
    /\ Has(<<"wait", "events_lasttx">>)

(***************************************************************************)
(* C11  one engine per instance                                             *)
(***************************************************************************)
\* C11: over any sequence of new and free at most one engine holds the
\* instance: the instance is either in the caller's hands or inside the
\* one engine, never both, and new builds an engine only when none is
\* live (the first one was released by free).
C11_SingleOwner ==
    /\ [](/\ engines <= 1
          /\ (engines = 1 <=> self0 # "none")
          /\ (self0 # "none" <=> periph = "none"))
    /\ [][engines' > engines => engines = 0 /\ periph # "none"]_vars

C11_Witness ==
    /\ op = "new"
    /\ engines = 1
    /\ self0 # "none"
    /\ periph = "none"

(***************************************************************************)
(* C12  free has no hardware side effect                                    *)
(***************************************************************************)
\* C12: the step that releases the engine accesses no register: every
\* register, event flag and the shorts are unchanged by it, the peripheral
\* keeps doing what it did, and the caller gets back the instance the
\* engine wrapped.
C12_FreeIsPure ==
    [][self0 # "none" /\ self0' = "none"
         => /\ regs' = regs
            /\ hw' = hw
            /\ trace' = <<>>
            /\ periph' = self0]_vars

C12_Witness ==
    /\ op = "free"
    /\ self0 = "none"
    /\ periph \in Instances
    /\ regs.enable = "enabled"
    /\ regs.txd_maxcnt > 0

(***************************************************************************)
(* C13  order of verification and flag clearing                             *)
(***************************************************************************)
EventResetsOf(o) == ResetsOf(o) \ {<<"write", "shorts">>}
VerifyPcs == {"w_verify", "r_verify", "t_bad_write", "t_bad_read", "t_verify"}
\* C13 (as stated): in a validated call that has returned, the amount
\* registers were read for the verdict before the event flags were cleared.
C13_VerifyThenClear ==
    Returned /\ Validated =>
      \A r \in EventResetsOf(op), a \in AmountReadsOf(op) : Before(a, r)

\* C13 (amended): the event flags are cleared first and the byte count is
\* verified after that: the flags are clear whenever the driver is at the
\* verification, every flag reset precedes every amount read, and nothing
\* but amount reads follows the first amount read before the call returns.
C13_ClearThenVerify ==
    /\ (pc \in VerifyPcs => EventsClear)
    /\ (Returned /\ Validated =>
          /\ \A r \in EventResetsOf(op), a \in AmountReadsOf(op) :
                Before(r, a)
          /\ \A i, j \in DOMAIN trace :
                trace[i][1] = "read" /\ i < j => trace[j][1] = "read")

C13_Witness ==
    /\ Returned /\ Validated
    /\ op = "read"
    /\ req.rd.len > 0
    /\ Before(<<"write", "events_lastrx">>, <<"read", "rxd_amount">>)
    /\ result = "Ok"

(***************************************************************************)
(* C14  the fixed order of write                                            *)
(***************************************************************************)
IsPrefix(t, u) == Len(t) <= Len(u) /\ \A i \in DOMAIN t : t[i] = u[i]
WriteOrder ==
    << <<"fence", "SeqCst">>,
       <<"write", "address">>, <<"write", "txd_ptr">>,
       <<"write", "txd_maxcnt">>, <<"write", "tasks_starttx">>,
       <<"wait", "events_lasttx">>, <<"write", "events_lasttx">>,
       <<"write", "tasks_stop">>,
       <<"wait", "events_stopped">>, <<"write", "events_stopped">>,
       <<"fence", "SeqCst">>,
       <<"read", "txd_amount">> >>
\* C14: the accesses of a write are always an initial part of the fixed
\* order address, txd.ptr, txd.maxcnt, starttx, lasttx seen, lasttx
\* cleared, stop, stopped seen, stopped cleared, txd.amount read (between
\* the two fences); a validated write that has returned made exactly these
\* accesses, each once.
C14_WriteOrder ==
    op = "write" =>
      /\ IsPrefix(trace, WriteOrder)
      /\ (Returned /\ Validated => trace = WriteOrder)

C14_Witness ==
    /\ Returned
    /\ op = "write"
    /\ trace = WriteOrder
    /\ result = "Transmit"

(***************************************************************************)
(* C15  read uses the receive side only, write the transmit side only       *)
(***************************************************************************)
ReadOrder ==
    << <<"fence", "SeqCst">>,
       <<"write", "address">>, <<"write", "rxd_ptr">>,
       <<"write", "rxd_maxcnt">>, <<"write", "tasks_startrx">>,
       <<"wait", "events_lastrx">>, <<"write", "events_lastrx">>,
       <<"write", "tasks_stop">>,
       <<"wait", "events_stopped">>, <<"write", "events_stopped">>,
       <<"fence", "SeqCst">>,
       <<"read", "rxd_amount">> >>
TxSide == {"txd_ptr", "txd_maxcnt", "txd_amount", "tasks_starttx",
           "events_lasttx", "shorts"}
RxSide == {"rxd_ptr", "rxd_maxcnt", "rxd_amount", "tasks_startrx",
           "events_lastrx", "shorts"}
\* C15: read makes the accesses of write with the receive registers in
\* place of the transmit ones and touches no transmit register nor the
\* shorts; write touches no receive register nor the shorts; the registers
\* of the other side keep their values through the call.
C15_ReadMirrorsWrite ==
    /\ [](/\ (op = "read" =>
                /\ IsPrefix(trace, ReadOrder)
                /\ (Returned /\ Validated => trace = ReadOrder)
                /\ \A i \in DOMAIN trace : trace[i][2] \notin TxSide)
          /\ (op = "write" =>
                \A i \in DOMAIN trace : trace[i][2] \notin RxSide))
    /\ [][/\ (op = "read" /\ op' = "read" =>
                /\ regs'.txd_ptr = regs.txd_ptr
                /\ regs'.txd_maxcnt = regs.txd_maxcnt
                /\ regs'.txd_amount = regs.txd_amount
                /\ regs'.shorts = regs.shorts)
          /\ (op = "write" /\ op' = "write" =>
                /\ regs'.rxd_ptr = regs.rxd_ptr
                /\ regs'.rxd_maxcnt = regs.rxd_maxcnt
                /\ regs'.rxd_amount = regs.rxd_amount
                /\ regs'.shorts = regs.shorts)]_vars

C15_Witness ==
    /\ Returned
    /\ op = "read"
    /\ trace = ReadOrder
    /\ regs.txd_ptr = "ram_a"
    /\ regs.txd_maxcnt > 0
    /\ result = "Ok"

(***************************************************************************)
(* C16  the two fences enclose the hardware sequence                        *)
(***************************************************************************)
FencesUpTo(i) ==
    Cardinality({j \in DOMAIN trace : j <= i /\ trace[j][1] = "fence"})
ValidatePcs == {"w_validate", "r_validate", "t_validate"}
\* C16: in every transfer call nothing is accessed during validation; the
\* first thing after it is the opening fence; every register write, task
\* trigger and event wait lies after the opening and before the closing
\* fence; the amount registers are read after the closing fence; a
\* validated call that has returned passed exactly two fences.
C16_FencesEnclose ==
    op \in Transfers =>
      /\ (pc \in ValidatePcs => trace = <<>>)
      /\ (trace # <<>> => trace[1] = <<"fence", "SeqCst">>)
      /\ \A i \in DOMAIN trace :
            /\ (trace[i][1] \in {"write", "modify", "wait"}
                  => FencesUpTo(i) = 1)
            /\ (trace[i][1] = "read" => FencesUpTo(i) = 2)
      /\ FencesUpTo(Len(trace)) <= 2
      /\ (Returned /\ Validated => FencesUpTo(Len(trace)) = 2)

C16_Witness ==
    /\ Returned /\ Validated
    /\ op = "write_then_read"
    /\ FencesUpTo(Len(trace)) = 2
    /\ trace[Len(trace)] = <<"read", "rxd_amount">>

(***************************************************************************)
(* C17  every call returns when the hardware completes                      *)
(***************************************************************************)
Ready ==
    /\ pc = "idle"
    /\ hw = "idle"
    /\ EventsClear
    /\ regs.shorts = {}
\* C17: when the peripheral raises every event it owes and the driver keeps
\* running, every call of write, read and write_then_read returns, with Ok
\* or with one error kind, and leaves the engine ready for the next call.
C17_CallsReturn ==
    (pc # "idle") ~> (Ready /\ op \in Transfers /\ result \in {"Ok"} \cup Errors)

C17_Witness ==
    /\ Ready
    /\ op = "write_then_read"
    /\ Validated
    /\ result = "Ok"
    /\ req.wr.len > 0 /\ req.rd.len > 0

(***************************************************************************)
(* C18  lengths up to and including the ceiling are accepted                *)
(***************************************************************************)
\* C18 (as stated): a returned call whose write buffer is at most
\* EASY_DMA_SIZE long did not fail with TxBufferTooLong, one whose read
\* buffer is at most EASY_DMA_SIZE long did not fail with RxBufferTooLong,
\* and a call with every length at most EASY_DMA_SIZE went on to program
\* the count registers.
C18_WithinCeilingProgramsHardware ==
    Returned =>
      /\ (UsesTx /\ ~TooLong(req.wr) => result # "TxBufferTooLong")
      /\ (UsesRx /\ ~TooLong(req.rd) => result # "RxBufferTooLong")
      /\ (~TooLong(req.wr) /\ ~TooLong(req.rd)
            => /\ Validated
               /\ (UsesTx => Has(<<"write", "txd_maxcnt">>))
               /\ (UsesRx => Has(<<"write", "rxd_maxcnt">>)))

\* C18 (amended): as above, except that a call with every length at most
\* EASY_DMA_SIZE goes on to program the count registers only if the
\* residency check did not reject its source buffer; a source buffer
\* outside data memory still fails, with DMABufferNotInDataMemory.
C18_CeilingIsInclusive ==
    Returned =>
      /\ (UsesTx /\ ~TooLong(req.wr) => result # "TxBufferTooLong")
      /\ (UsesRx /\ ~TooLong(req.rd) => result # "RxBufferTooLong")
      /\ (~TooLong(req.wr) /\ ~TooLong(req.rd) /\ (UsesTx => InRam(req.wr))
            => /\ Validated
               /\ (UsesTx => Has(<<"write", "txd_maxcnt">>))
               /\ (UsesRx => Has(<<"write", "rxd_maxcnt">>)))

C18_Witness ==
    /\ Returned /\ Validated
    /\ op = "read"
    /\ req.rd.len = EASY_DMA_SIZE
    /\ Has(<<"write", "rxd_maxcnt">>)
    /\ result = "Ok"

(***************************************************************************)
(* C19  the count register holds the length, never a truncation of it       *)
(***************************************************************************)
\* C19: once a call has written txd.maxcnt (rxd.maxcnt), the register
\* holds exactly the length of the write (read) buffer, which fits the
\* MAXCNT field.
C19_MaxcntIsLength ==
    /\ (UsesTx /\ Has(<<"write", "txd_maxcnt">>)
          => /\ regs.txd_maxcnt = req.wr.len
             /\ req.wr.len < Pow2(MAXCNT_WIDTH))
    /\ (UsesRx /\ Has(<<"write", "rxd_maxcnt">>)
          => /\ regs.rxd_maxcnt = req.rd.len
             /\ req.rd.len < Pow2(MAXCNT_WIDTH))

C19_Witness ==
    /\ op = "write"
    /\ pc = "w_starttx"
    /\ req.wr.len = EASY_DMA_SIZE
    /\ regs.txd_maxcnt = EASY_DMA_SIZE

(***************************************************************************)
(* C20  precedence among the validation checks                              *)
(***************************************************************************)
\* C20: a request failing several checks reports the first only: a source
\* buffer outside data memory yields DMABufferNotInDataMemory whatever the
\* lengths are, and in write_then_read a too-long write buffer in data
\* memory yields TxBufferTooLong even if the read buffer is too long too.
C20_FirstFailureReported ==
    Returned =>
      /\ (UsesTx /\ ~InRam(req.wr) /\ (TooLong(req.wr) \/ TooLong(req.rd))
            => result = "DMABufferNotInDataMemory")
      /\ (op = "write_then_read" /\ InRam(req.wr)
            /\ TooLong(req.wr) /\ TooLong(req.rd)
            => result = "TxBufferTooLong")

C20_Witness ==
    /\ Returned
    /\ op = "write_then_read"
    /\ InRam(req.wr) /\ TooLong(req.wr) /\ TooLong(req.rd)
    /\ result = "TxBufferTooLong"
====
